---- MODULE Spec2Model ----
(***************************************************************************)
(* A model of library/tenable_product.py: the platform-identity            *)
(* equivalence functions, the filename metadata extraction done by         *)
(* TenableDownloadInfo.__init__, artifact selection by                     *)
(* TenableProductInfo.get_download_for, the page parser and the            *)
(* TenableProductDownloader that loads the catalogs and answers the        *)
(* "download for this platform" query.                                     *)
(*                                                                         *)
(* Python strings are TLA+ strings, handled character by character with    *)
(* Len, SubSeq, Head, Tail and \o.  Python's None is the empty tuple and a *)
(* string value s that may also be None is the one-tuple <<s>>.            *)
(***************************************************************************)
EXTENDS Integers, Sequences, FiniteSets, TLC

VARIABLES
    pc,             \* position of the run: "call" before the operation, "done" after
    arch1, arch2,   \* arguments of is_equivalent_architecture
    archRet,        \* its return value
    distro1, major_version, distro2,   \* arguments of is_equivalent_distro
    distroRet,      \* its return value
    raw,            \* one raw catalog dict handed to TenableDownloadInfo
    info,           \* the TenableDownloadInfo built from it
    downloads,      \* TenableProductInfo.downloads
    query,          \* (os, major_version, arch, os_type) of the last selection
    selRet,         \* outcome of get_download_for
    server,         \* what session.get answers for each product family
    product_info,   \* TenableProductDownloader.product_info
    ret             \* outcome of the last call on the downloader

archVars == <<arch1, arch2, archRet>>
distroVars == <<distro1, major_version, distro2, distroRet>>
extractVars == <<raw, info>>
selectVars == <<downloads, query, selRet>>
loaderVars == <<server, product_info, ret>>
vars == <<pc, archVars, distroVars, extractVars, selectVars, loaderVars>>

(***************************************************************************)
(* Python values                                                           *)
(***************************************************************************)
None == <<>>
Str(s) == <<s>>
Some(x) == <<x>>
val(x) == x[1]

(***************************************************************************)
(* str methods used by the source                                          *)
(***************************************************************************)
UpperLetters == "ABCDEFGHIJKLMNOPQRSTUVWXYZ"
LowerLetters == "abcdefghijklmnopqrstuvwxyz"
Digits == "0123456789"

CharAt(s, i) == SubSeq(s, i, i)

\* c in s, for a one-character string c
CharIn(c, s) == \E i \in 1..Len(s) : CharAt(s, i) = c

\* the lower-case and upper-case forms of the letters
LowerOf == [i \in 1..Len(UpperLetters) |-> CharAt(LowerLetters, i)]
UpperIndex == [c \in {CharAt(UpperLetters, i) : i \in 1..Len(UpperLetters)} |->
                  CHOOSE i \in 1..Len(UpperLetters) : CharAt(UpperLetters, i) = c]
LowerIndex == [c \in {CharAt(LowerLetters, i) : i \in 1..Len(LowerLetters)} |->
                  CHOOSE i \in 1..Len(LowerLetters) : CharAt(LowerLetters, i) = c]

LowerChar(c) ==
    IF c \in DOMAIN UpperIndex THEN LowerOf[UpperIndex[c]] ELSE c

UpperChar(c) ==
    IF c \in DOMAIN LowerIndex THEN CharAt(UpperLetters, LowerIndex[c]) ELSE c

RECURSIVE lower(_)
lower(s) == IF s = "" THEN "" ELSE LowerChar(Head(s)) \o lower(Tail(s))

RECURSIVE upper(_)
upper(s) == IF s = "" THEN "" ELSE UpperChar(Head(s)) \o upper(Tail(s))

startswith(s, p) == Len(s) >= Len(p) /\ SubSeq(s, 1, Len(p)) = p

endswith(s, p) == Len(s) >= Len(p) /\ SubSeq(s, Len(s) - Len(p) + 1, Len(s)) = p

\* p in s
contains(s, p) == \E i \in 0..(Len(s) - Len(p)) : SubSeq(s, i + 1, i + Len(p)) = p

(***************************************************************************)
(* is_equivalent_architecture                                              *)
(***************************************************************************)
arch_equivalences ==
    << [base |-> "x86_64",  aliases |-> {"amd64", "x86-64"}],
       [base |-> "armv7l",  aliases |-> {"arm"}],
       [base |-> "aarch64", aliases |-> {"arm64"}] >>

\* The loop with only its first test: the mirrored elif is missing.
is_equivalent_architecture_oneway(a1, a2) ==
    LET arch1_lower == lower(a1)
        arch2_lower == lower(a2)
    IN  \/ \E k \in DOMAIN arch_equivalences :
              arch1_lower = arch_equivalences[k].base
                  /\ arch2_lower \in arch_equivalences[k].aliases
        \/ arch1_lower = arch2_lower

is_equivalent_architecture(a1, a2) ==
    LET arch1_lower == lower(a1)
        arch2_lower == lower(a2)
    IN  \/ \E k \in DOMAIN arch_equivalences :
              \/ arch1_lower = arch_equivalences[k].base
                  /\ arch2_lower \in arch_equivalences[k].aliases
              \/ arch2_lower = arch_equivalences[k].base
                  /\ arch1_lower \in arch_equivalences[k].aliases
        \/ arch1_lower = arch2_lower

(***************************************************************************)
(* is_equivalent_distro                                                    *)
(***************************************************************************)
distro_equivalences ==
    << [group |-> "el",
        aliases |-> {"redhat", "rhel", "fedora", "centos", "scientific", "slc",
                     "ascendos", "cloudlinux", "psbm", "oraclelinux", "ovs",
                     "oel", "virtuozzo", "xenserver", "alibaba",
                     "euleros", "openEuler", "almalinux", "rocky", "tencentos",
                     "eurolinux", "kylin linux advanced server", "miracle", "el"}],
       [group |-> "amzn", aliases |-> {"amazon", "amzn"}],
       [group |-> "ubuntu",
        aliases |-> {"ubuntu", "raspbian", "neon", "kde neon",
                     "linux mint", "steamOS", "cumulus linux",
                     "pop!_os", "parrot", "pardus gnu/linux", "uos", "deepin", "osmc"}],
       [group |-> "debian", aliases |-> {"debian", "devuan", "kali"}],
       [group |-> "suse",
        aliases |-> {"suse", "sles", "sled", "opensuse", "opensuse tumbleweed",
                     "sles_sap", "suse_linux", "opensuse leap", "alp-dolomite"}] >>

\* The loop over the groups from group k on; it returns from inside the first
\* group that lists distro1_lower and whose key starts distro2_lower.
RECURSIVE distro_loop(_, _, _, _)
distro_loop(k, distro1_lower, mv, distro2_lower) ==
    IF k > Len(distro_equivalences) THEN FALSE
    ELSE IF /\ distro1_lower \in distro_equivalences[k].aliases
            /\ startswith(distro2_lower, distro_equivalences[k].group)
         THEN IF startswith(distro2_lower, "el")
              THEN contains(distro2_lower, mv)
              ELSE TRUE
         ELSE distro_loop(k + 1, distro1_lower, mv, distro2_lower)

is_equivalent_distro(d1, mv, d2) ==
    distro_loop(1, lower(d1), mv, lower(d2))

(***************************************************************************)
(* TenableDownloadInfo.__init__: metadata extraction from the filename     *)
(***************************************************************************)
IsDigit(c) == CharIn(c, Digits)

\* the largest i <= upto with s[i] = c, 0 when there is none
LastIndexOf(s, c, upto) ==
    LET at == {i \in 1..upto : CharAt(s, i) = c}
    IN  IF at = {} THEN 0 ELSE CHOOSE i \in at : \A j \in at : j <= i

\* the start of the longest run of digits that ends at position e (e + 1
\* when s[e] is no digit)
DigitRunStart(s, e) ==
    CHOOSE st \in 1..(e + 1) :
        /\ \A i \in st..e : IsDigit(CharAt(s, i))
        /\ (st = 1 \/ ~IsDigit(CharAt(s, st - 1)))

\* \d+\.\d+\.\d+ matches some text that ends at position e of s
VersionEndsAt(s, e) ==
    LET s3 == DigitRunStart(s, e)
        s2 == DigitRunStart(s, s3 - 2)
    IN  /\ e >= 1 /\ s3 <= e
        /\ s3 >= 2 /\ CharAt(s, s3 - 1) = "."
        /\ s2 <= s3 - 2
        /\ s2 >= 2 /\ CharAt(s, s2 - 1) = "."
        /\ s2 >= 3 /\ IsDigit(CharAt(s, s2 - 2))

\* The same search with the platform token allowed to hold hyphens:
\* (?P<os>.+) in place of (?P<os>[^-]+\d*).
re_search_os_hyphens(name) ==
    LET d == LastIndexOf(name, ".", Len(name))
        hs == {h \in 1..(d - 2) : CharAt(name, h) = "-" /\ VersionEndsAt(name, h - 1)}
    IN  IF d = 0 \/ d = Len(name) \/ hs = {} THEN None
        ELSE LET h == CHOOSE x \in hs : \A y \in hs : x <= y
             IN  Str(SubSeq(name, h + 1, d - 1))

\* re.search(r"(?P<version>\d+\.\d+\.\d+)-(?:(?P<os>[^-]+\d*))\.(?P<ext>[^.]+)$", name):
\* None, or the text of group 'os'.  ext holds no '.', so it is what follows
\* the last '.'; os holds no '-', so it starts after the last '-' before that
\* '.'; the version must end right before that '-'.
re_search_os(name) ==
    LET d == LastIndexOf(name, ".", Len(name))
        h == LastIndexOf(name, "-", d - 1)
    IN  IF /\ d > 0 /\ d < Len(name)
           /\ h > 0 /\ d - h >= 2
           /\ VersionEndsAt(name, h - 1)
        THEN Str(SubSeq(name, h + 1, d - 1))
        ELSE None

\* re.split(r"(?<!\.)\.(?!\.)|(?<!_)_(?!_)", s, maxsplit=1): split at the first
\* '.' with no '.' beside it or '_' with no '_' beside it
re_split(s) ==
    LET seps == {i \in 1..Len(s) :
                    /\ CharAt(s, i) \in {".", "_"}
                    /\ (i = 1 \/ CharAt(s, i - 1) # CharAt(s, i))
                    /\ (i = Len(s) \/ CharAt(s, i + 1) # CharAt(s, i))}
    IN  IF seps = {} THEN <<s>>
        ELSE LET i == CHOOSE x \in seps : \A y \in seps : x <= y
             IN  <<SubSeq(s, 1, i - 1), SubSeq(s, i + 1, Len(s))>>

MetaKeys == {"os", "os_type", "arch"}

\* TenableInfoMetadata built from the meta_data dict: a keyword that is not passed takes the
\* default "", one passed as null is None
TenableInfoMetadata(md) ==
    [k \in MetaKeys |-> IF k \in DOMAIN md THEN md[k] ELSE Str("")]

\* A name ending in dmg or tar.gz sets os_type and returns at once; otherwise
\* the fields that are None are filled from the platform token of the name.
TenableDownloadInfo(d) ==
    LET md == TenableInfoMetadata(d.meta_data)
        matches == re_search_os(d.name)
    IN  IF endswith(d.name, "dmg")
        THEN [name |-> d.name, meta_data |-> [md EXCEPT !["os_type"] = Str("darwin")]]
        ELSE IF endswith(d.name, "tar.gz")
        THEN [name |-> d.name, meta_data |-> [md EXCEPT !["os_type"] = Str("linux")]]
        ELSE IF matches = None
        THEN [name |-> d.name, meta_data |-> md]
        ELSE LET os_arch == re_split(val(matches))
                 os1 == IF md["os"] = None THEN Str(os_arch[1]) ELSE md["os"]
                 os_type1 ==
                     IF md["os_type"] = None
                     THEN IF startswith(lower(val(os1)), "win")
                          THEN Str("windows") ELSE Str("linux")
                     ELSE md["os_type"]
                 arch1v ==
                     IF md["arch"] = None /\ Len(os_arch) > 1
                     THEN Str(os_arch[2]) ELSE md["arch"]
             IN  [name |-> d.name,
                  meta_data |-> [k \in MetaKeys |->
                                    CASE k = "os" -> os1
                                      [] k = "os_type" -> os_type1
                                      [] k = "arch" -> arch1v]]

(***************************************************************************)
(* TenableDownloadInfo.is_match, TenableProductInfo                        *)
(***************************************************************************)
\* The bare except turns the AttributeError of None.lower() into "no match":
\* is_equivalent_distro lowers meta_data.os before anything else, and
\* is_equivalent_architecture is only called once the distro test passed.
\* is_match without the file-name test of the darwin shortcut: a darwin
\* query accepts every artifact
is_match_darwin_any(d, q) ==
    IF lower(q.os_type) = "darwin" THEN TRUE
    ELSE IF d.meta_data["os"] = None THEN FALSE
    ELSE IF ~is_equivalent_distro(q.os, q.major_version, val(d.meta_data["os"])) THEN FALSE
    ELSE IF d.meta_data["arch"] = None THEN FALSE
    ELSE is_equivalent_architecture(q.arch, val(d.meta_data["arch"]))

is_match(d, q) ==
    IF lower(q.os_type) = "darwin" /\ endswith(d.name, "dmg") THEN TRUE
    ELSE IF d.meta_data["os"] = None THEN FALSE
    ELSE IF ~is_equivalent_distro(q.os, q.major_version, val(d.meta_data["os"])) THEN FALSE
    ELSE IF d.meta_data["arch"] = None THEN FALSE
    ELSE is_equivalent_architecture(q.arch, val(d.meta_data["arch"]))

\* TenableProductInfo.__init__: one TenableDownloadInfo per raw dict, in order
TenableProductInfo(raws) == [i \in DOMAIN raws |-> TenableDownloadInfo(raws[i])]

\* Only the artifacts whose os is set are listed.
list_all_os_and_arch_options_classified(ds) ==
    LET keep == {i \in DOMAIN ds : ds[i].meta_data["os"] # None}
        nth(n) == CHOOSE i \in keep : Cardinality({j \in keep : j < i}) = n - 1
    IN  [n \in 1..Cardinality(keep) |->
            <<ds[nth(n)].meta_data["os"], ds[nth(n)].meta_data["arch"]>>]

list_all_os_and_arch_options(ds) ==
    [i \in DOMAIN ds |-> <<ds[i].meta_data["os"], ds[i].meta_data["arch"]>>]

\* the for loop of get_download_for from position i on
RECURSIVE download_loop(_, _, _)
download_loop(ds, q, i) ==
    IF i > Len(ds)
    THEN [kind |-> "ValueError", options |-> list_all_os_and_arch_options(ds)]
    ELSE IF is_match(ds[i], q)
         THEN [kind |-> "return", index |-> i, download |-> ds[i]]
         ELSE download_loop(ds, q, i + 1)

\* The scan keeps the last match instead of returning at the first.
get_download_for_last(ds, q) ==
    LET M == {i \in DOMAIN ds : is_match(ds[i], q)}
    IN  IF M = {}
        THEN [kind |-> "ValueError", options |-> list_all_os_and_arch_options(ds)]
        ELSE LET i == CHOOSE x \in M : \A y \in M : y <= x
             IN  [kind |-> "return", index |-> i, download |-> ds[i]]

get_download_for(ds, q) == download_loop(ds, q, 1)

(***************************************************************************)
(* TenablePageParser                                                       *)
(*                                                                         *)
(* A page is the sequence of events html.parser delivers for it: start     *)
(* tags with their attribute pairs, data, end tags.  The text of a script  *)
(* is a sequence of fragments; json.loads accepts exactly one whole        *)
(* document, given in one fragment or as its head followed by its tail.    *)
(***************************************************************************)
StartTag(tag, attrs) == [type |-> "starttag", tag |-> tag, attrs |-> attrs]
Data(text) == [type |-> "data", data |-> text]
EndTag(tag) == [type |-> "endtag", tag |-> tag]

Whole(doc) == [part |-> "all", doc |-> Some(doc)]
HeadOf(doc) == [part |-> "head", doc |-> Some(doc)]
TailOf(doc) == [part |-> "tail", doc |-> Some(doc)]
Garbage == [part |-> "garbage", doc |-> None]

\* json.loads(text): the decoded document, or JSONDecodeError
json_loads(text) ==
    IF Len(text) = 1 /\ text[1].part = "all"
    THEN [ok |-> TRUE, value |-> text[1].doc]
    ELSE IF /\ Len(text) = 2
            /\ text[1].part = "head" /\ text[2].part = "tail"
            /\ text[1].doc = text[2].doc
         THEN [ok |-> TRUE, value |-> text[1].doc]
         ELSE [ok |-> FALSE, value |-> None]

\* TenablePageParser.__init__ with its default arguments
TenablePageParser ==
    [find_tag |-> "script",
     find_attrs |-> <<"id", "__NEXT_DATA__">>,
     in_special_script |-> FALSE,
     json_data |-> <<>>,
     decoded_json |-> None]

handle_starttag(parser, tag, attrs) ==
    IF tag = parser.find_tag /\ parser.find_attrs \in attrs
    THEN [parser EXCEPT !.in_special_script = TRUE]
    ELSE parser

handle_data(parser, data) ==
    IF parser.in_special_script
    THEN [parser EXCEPT !.json_data = @ \o data]
    ELSE parser

\* a JSONDecodeError is caught: decoded_json keeps its value
handle_endtag(parser, tag) ==
    IF tag = parser.find_tag /\ parser.in_special_script
    THEN LET decoded == json_loads(parser.json_data)
         IN  IF decoded.ok
             THEN [parser EXCEPT !.in_special_script = FALSE,
                                 !.decoded_json = decoded.value]
             ELSE [parser EXCEPT !.in_special_script = FALSE]
    ELSE parser

\* HTMLParser.feed: the handlers called event by event, from event i on
RECURSIVE feed(_, _, _)
feed(parser, page, i) ==
    IF i > Len(page) THEN parser
    ELSE LET ev == page[i]
             next == CASE ev.type = "starttag" -> handle_starttag(parser, ev.tag, ev.attrs)
                       [] ev.type = "data" -> handle_data(parser, ev.data)
                       [] ev.type = "endtag" -> handle_endtag(parser, ev.tag)
         IN  feed(next, page, i + 1)

Return(v) == [kind |-> "return", detail |-> v]
Raise(exc, v) == [kind |-> exc, detail |-> v]

\* products is an ordered mapping, kept as a sequence of [key, downloads] in
\* the order of the document: one TenableProductInfo per product line
product_infos(products) ==
    Return([i \in DOMAIN products |->
               [key |-> products[i].key,
                downloads |-> TenableProductInfo(products[i].downloads)]])

\* self.decoded_json['props']['pageProps']['products']: subscripting None
\* raises TypeError, a missing key KeyError
products_of(decoded_json) ==
    IF decoded_json = None
    THEN Raise("TypeError", [message |-> "'NoneType' object is not subscriptable"])
    ELSE IF "props" \notin DOMAIN val(decoded_json)
    THEN Raise("KeyError", [key |-> "props"])
    ELSE IF "pageProps" \notin DOMAIN val(decoded_json).props
    THEN Raise("KeyError", [key |-> "pageProps"])
    ELSE IF "products" \notin DOMAIN val(decoded_json).props.pageProps
    THEN Raise("KeyError", [key |-> "products"])
    ELSE product_infos(val(decoded_json).props.pageProps.products)

get_product_info(parser, text) ==
    products_of((IF parser.decoded_json = None THEN feed(parser, text, 1)
                 ELSE parser).decoded_json)

(***************************************************************************)
(* TenableProductDownloader                                                *)
(***************************************************************************)
available_products == <<"nessus-agents", "security-center">>
HTTP_OK == 200

\* product_info[name] = value
DictSet(dict, name, value) ==
    [k \in DOMAIN dict \cup {name} |-> IF k = name THEN value ELSE dict[k]]

\* self.product_info[product_name] = parser.get_product_info(...): the
\* assignment happens only when get_product_info returned
store_product_info(st, product_name, got) ==
    IF got.kind = "return"
    THEN [st EXCEPT !.product_info = DictSet(@, product_name, got.detail)]
    ELSE [st EXCEPT !.raised = Some(got)]

\* The body of the loop of load_all_product_info.  st holds product_info,
\* the lines given to logger.error and the exception that ended the loop, if
\* any.
load_one(st, product_name, response) ==
    IF response.status_code = HTTP_OK
    THEN store_product_info(st, product_name,
                            get_product_info(TenablePageParser, response.text))
    ELSE [st EXCEPT !.logged = Append(@, [product_name |-> product_name,
                                           status_code |-> response.status_code])]

\* the loop of load_all_product_info from family i on
RECURSIVE load_loop(_, _, _)
load_loop(srv, st, i) ==
    IF i > Len(available_products) \/ st.raised # None THEN st
    ELSE load_loop(srv, load_one(st, available_products[i], srv[available_products[i]]),
                   i + 1)

load_all_product_info(srv, pinfo) ==
    load_loop(srv, [product_info |-> pinfo, logged |-> <<>>, raised |-> None], 1)

\* return self.product_info['nessus-agents'], after the load st
agent_info_of(st) ==
    IF st.raised # None
    THEN st @@ [result |-> val(st.raised)]
    ELSE IF "nessus-agents" \notin DOMAIN st.product_info
    THEN st @@ [result |-> Raise("KeyError", [key |-> "nessus-agents"])]
    ELSE st @@ [result |-> Return(st.product_info["nessus-agents"])]

\* nessus_agent_info: loads when product_info is empty, then subscripts
nessus_agent_info(srv, pinfo) ==
    agent_info_of(IF DOMAIN pinfo = {} THEN load_all_product_info(srv, pinfo)
                  ELSE [product_info |-> pinfo, logged |-> <<>>, raised |-> None])

\* nessus_agent_installer_info: the first product line whose name starts
\* with nessus-agents; falling off the loop returns None
nessus_agent_installer_info(lines) ==
    LET hits == {i \in DOMAIN lines : startswith(lines[i].key, "nessus-agents")}
    IN  IF hits = {} THEN None
        ELSE Some(lines[CHOOSE i \in hits : \A j \in hits : i <= j])

\* what get_download_for gave becomes the outcome of the call
selection_outcome(st, sel) ==
    IF sel.kind = "return"
    THEN [st EXCEPT !.result = Return(sel.download)]
    ELSE [st EXCEPT !.result = Raise("ValueError", [options |-> sel.options])]

\* installer.get_download_for(...): None has no such attribute
installer_download(st, installer, q) ==
    IF installer = None
    THEN [st EXCEPT !.result =
             Raise("AttributeError",
                   [message |-> "'NoneType' object has no attribute 'get_download_for'"])]
    ELSE selection_outcome(st, get_download_for(val(installer).downloads, q))

\* self.nessus_agent_installer_info.get_download_for(...), after the property
\* nessus_agent_info gave st
download_info_of(st, q) ==
    IF st.result.kind # "return" THEN st
    ELSE installer_download(st, nessus_agent_installer_info(st.result.detail), q)

\* get_nessus_agent_download_info: the state after the call and its outcome
get_nessus_agent_download_info(srv, pinfo, q) ==
    download_info_of(nessus_agent_info(srv, pinfo), q)

(***************************************************************************)
(* Inputs of the equivalence functions                                     *)
(***************************************************************************)
ArchNames ==
    {"x86_64", "amd64", "x86-64", "armv7l", "arm", "aarch64", "arm64",
     "i386", "ppc64le"}
ArchInputs == ArchNames \cup {upper(a) : a \in ArchNames} \cup {"Amd64", "X86_64"}

AllAliases == UNION {distro_equivalences[k].aliases : k \in DOMAIN distro_equivalences}
ElAliases == distro_equivalences[1].aliases
DistroInputs ==
    AllAliases \cup {upper(a) : a \in AllAliases} \cup {lower(a) : a \in AllAliases}
        \cup {"CentOS", "Ubuntu", "RedHat", "FreeBSD", ""}
Numerals == {"1", "7", "8", "10", "18"}
ElTokens == {"el" \o n : n \in Numerals}
DistroTokens ==
    ElTokens \cup {"amzn2", "ubuntu1404", "debian10", "suse15", "EL8", "es7", ""}

(***************************************************************************)
(* Inputs of the extraction                                                *)
(***************************************************************************)
Prefixes == {"NessusAgent-", "Nessus-"}
VersionTexts == {"10.6.1"}
OsTokens == {"ubuntu1404", "el8", "Win32", "amzn2"}
Separators == {".", "_"}
ArchTokens == {"amd64", "x86_64", "i386"}
Extensions == {"deb", "rpm", "msi"}

\* <prefix><digits.digits.digits>-<osToken><sep><archToken>.<ext>
PlatformName(pre, ver, o, sep, a, e) == pre \o ver \o "-" \o o \o sep \o a \o "." \o e

PlatformNames ==
    {PlatformName(pre, ver, o, sep, a, e) :
        pre \in Prefixes, ver \in VersionTexts, o \in OsTokens, sep \in Separators,
        a \in ArchTokens, e \in Extensions}

WinArchTokens == {"x64", "x86", "tar"}
WinExtensions == {"msi", "exe", "dmg", "gz"}

\* <prefix><digits.digits.digits>-win-<arch>.<ext>
WinHyphenName(pre, ver, a, e) == pre \o ver \o "-win-" \o a \o "." \o e

WinHyphenNames ==
    {WinHyphenName(pre, ver, a, e) :
        pre \in Prefixes, ver \in VersionTexts, a \in WinArchTokens, e \in WinExtensions}

OtherNames ==
    {"Nessus-10.6.1.dmg", "Nessus-10.6.1.tar.gz", "NessusAgent-10.6.1-x64.msi",
     "NessusAgent-10.6.1-Win32.msi", "NessusAgent-10.6-el8.x86_64.rpm",
     "nessus-agent-notes", ""}

FileNames == PlatformNames \cup WinHyphenNames \cup OtherNames

\* what the catalog can give for one metadata key that it lists: null or a string
SuppliedValues == {None, Str("catalog"), Str("")}

\* meta_data dicts: any subset of the three keys, each null or a string
MetaDicts == UNION {[K -> SuppliedValues] : K \in SUBSET MetaKeys}

RawDownloads == [name : FileNames, meta_data : MetaDicts]

(***************************************************************************)
(* Inputs of the selection                                                 *)
(***************************************************************************)
MaxDownloads == 3

NullMeta == [k \in MetaKeys |-> None]

SelectRaws ==
    {[name |-> "NessusAgent-10.6.1-ubuntu1404_amd64.deb", meta_data |-> NullMeta],
     [name |-> "NessusAgent-10.6.1-ubuntu1404_arm64.deb", meta_data |-> NullMeta],
     [name |-> "NessusAgent-10.6.1-el8.x86_64.rpm", meta_data |-> NullMeta],
     [name |-> "NessusAgent-10.6.1-es7.x86_64.rpm",
      meta_data |-> [os |-> Str("el7"), os_type |-> Str("linux"), arch |-> Str("x86_64")]],
     [name |-> "NessusAgent-10.6.1.dmg", meta_data |-> NullMeta],
     [name |-> "nessus-agent-notes", meta_data |-> NullMeta],
     [name |-> "NessusAgent-10.6.1-ubuntu1404_amd64.deb", meta_data |-> <<>>],
     [name |-> "NessusAgent-latest-el8.x86_64.rpm",
      meta_data |-> [os |-> Str("el8"), os_type |-> Str("linux"), arch |-> Str("x86_64")]],
     [name |-> "nessus-agent-notes", meta_data |-> <<>>]}

RawLists == UNION {[1..n -> SelectRaws] : n \in 0..MaxDownloads}

Queries ==
    [os : {"Ubuntu", "CentOS", "MacOSX"},
     major_version : {"14", "8", "7"},
     arch : {"x86_64", "aarch64"},
     os_type : {"Debian", "Darwin"}]

(***************************************************************************)
(* Inputs of the downloader: what the server answers                       *)
(***************************************************************************)
UbuntuAmd64 == [name |-> "NessusAgent-10.6.1-ubuntu1404_amd64.deb", meta_data |-> NullMeta]
UbuntuArm64 == [name |-> "NessusAgent-10.6.1-ubuntu1404_arm64.deb", meta_data |-> NullMeta]
El8X86 == [name |-> "NessusAgent-10.6.1-el8.x86_64.rpm", meta_data |-> NullMeta]
MacDmg == [name |-> "NessusAgent-10.6.1.dmg", meta_data |-> NullMeta]

ProductMaps ==
    { <<[key |-> "nessus-agents-10.6.1", downloads |-> <<UbuntuAmd64, UbuntuArm64, El8X86>>]>>,
      <<[key |-> "nessus-agents-10.6.1", downloads |-> <<El8X86, MacDmg>>]>>,
      <<[key |-> "agent-documentation", downloads |-> <<MacDmg>>],
        [key |-> "nessus-agents-10.6.1", downloads |-> <<UbuntuArm64, UbuntuAmd64>>],
        [key |-> "nessus-agents-10.5.0", downloads |-> <<El8X86>>]>>,
      <<[key |-> "security-center-6.3.0", downloads |-> <<El8X86>>]>>,
      <<>> }

PageDoc(products) == [props |-> [pageProps |-> [products |-> products]]]
OtherDoc == [buildId |-> "x"]
Documents == {PageDoc(p) : p \in ProductMaps} \cup {OtherDoc}

Marker == <<"id", "__NEXT_DATA__">>

WholePage(doc) ==
    <<StartTag("html", {}), StartTag("script", {Marker}), Data(<<Whole(doc)>>),
      EndTag("script"), EndTag("html")>>
\* the script text arrives in two pieces
SplitPage(doc) ==
    <<StartTag("script", {Marker, <<"type", "application/json">>}),
      Data(<<HeadOf(doc)>>), Data(<<TailOf(doc)>>), EndTag("script")>>
\* the marked script holds malformed text
GarbagePage == <<StartTag("script", {Marker}), Data(<<Garbage>>), EndTag("script")>>
TruncatedPage(doc) == <<StartTag("script", {Marker}), Data(<<HeadOf(doc)>>), EndTag("script")>>
\* no marked script: none at all, or one with other attributes
PlainPage == <<StartTag("html", {}), Data(<<Garbage>>), EndTag("html")>>
UnmarkedPage(doc) ==
    <<StartTag("script", {<<"id", "other">>}), Data(<<Whole(doc)>>), EndTag("script")>>

FirstDoc == PageDoc(<<[key |-> "nessus-agents-10.6.1",
                       downloads |-> <<UbuntuAmd64, UbuntuArm64, El8X86>>]>>)

Pages ==
    {WholePage(doc) : doc \in Documents}
        \cup {SplitPage(FirstDoc), GarbagePage, TruncatedPage(FirstDoc), PlainPage,
              UnmarkedPage(FirstDoc)}

\* a page has a marked script element
HasMarkedScript(page) ==
    \E i \in DOMAIN page :
        page[i].type = "starttag" /\ page[i].tag = "script" /\ Marker \in page[i].attrs

\* the text between the marked script tags of a page
RECURSIVE MarkedText(_, _, _)
MarkedText(page, i, inside) ==
    IF i > Len(page) THEN <<>>
    ELSE IF page[i].type = "starttag" /\ page[i].tag = "script" /\ Marker \in page[i].attrs
         THEN MarkedText(page, i + 1, TRUE)
    ELSE IF page[i].type = "endtag" /\ page[i].tag = "script"
         THEN MarkedText(page, i + 1, FALSE)
    ELSE IF page[i].type = "data" /\ inside
         THEN page[i].data \o MarkedText(page, i + 1, inside)
    ELSE MarkedText(page, i + 1, inside)

\* the marked script of a page holds malformed structured data
MalformedScript(page) == HasMarkedScript(page) /\ ~json_loads(MarkedText(page, 1, FALSE)).ok

ErrorStatuses == {503, 404}

Responses ==
    [status_code : {HTTP_OK}, text : Pages]
        \cup [status_code : ErrorStatuses, text : {PlainPage}]

Families == {available_products[i] : i \in DOMAIN available_products}

\* the platforms the downloader is asked about
LoaderQueries ==
    {q \in Queries : q.major_version # "14" /\ (q.os_type = "Darwin" <=> q.os = "MacOSX")}

(***************************************************************************)
(* Idle values of the variables a specification does not use               *)
(***************************************************************************)
ArchIdle == arch1 = "" /\ arch2 = "" /\ archRet = FALSE
DistroIdle == distro1 = "" /\ major_version = "" /\ distro2 = "" /\ distroRet = FALSE
ExtractIdle == raw = None /\ info = None
SelectIdle == downloads = <<>> /\ query = None /\ selRet = None
LoaderIdle == server = None /\ product_info = <<>> /\ ret = None

(***************************************************************************)
(* SpecArch: is_equivalent_architecture applied to every pair of inputs    *)
(***************************************************************************)
InitArch ==
    /\ pc = "call"
    /\ arch1 \in ArchInputs
    /\ arch2 \in ArchInputs
    /\ archRet = FALSE
    /\ DistroIdle /\ ExtractIdle /\ SelectIdle /\ LoaderIdle

CallArch ==
    /\ pc = "call"
    /\ archRet' = is_equivalent_architecture(arch1, arch2)
    /\ pc' = "done"
    /\ UNCHANGED <<arch1, arch2, distroVars, extractVars, selectVars, loaderVars>>

NextArch == CallArch
SpecArch == InitArch /\ [][NextArch]_vars

(***************************************************************************)
(* SpecDistro: is_equivalent_distro applied to every triple of inputs      *)
(***************************************************************************)
InitDistro ==
    /\ pc = "call"
    /\ distro1 \in DistroInputs
    /\ major_version \in Numerals
    /\ distro2 \in DistroTokens
    /\ distroRet = FALSE
    /\ ArchIdle /\ ExtractIdle /\ SelectIdle /\ LoaderIdle

CallDistro ==
    /\ pc = "call"
    /\ distroRet' = is_equivalent_distro(distro1, major_version, distro2)
    /\ pc' = "done"
    /\ UNCHANGED <<distro1, major_version, distro2, archVars, extractVars,
                   selectVars, loaderVars>>

NextDistro == CallDistro
SpecDistro == InitDistro /\ [][NextDistro]_vars

(***************************************************************************)
(* SpecExtract: TenableDownloadInfo for every raw catalog dict        *)
(***************************************************************************)
InitExtract ==
    /\ pc = "call"
    /\ raw \in RawDownloads
    /\ info = None
    /\ ArchIdle /\ DistroIdle /\ SelectIdle /\ LoaderIdle

Construct ==
    /\ pc = "call"
    /\ info' = TenableDownloadInfo(raw)
    /\ pc' = "done"
    /\ UNCHANGED <<raw, archVars, distroVars, selectVars, loaderVars>>

NextExtract == Construct
SpecExtract == InitExtract /\ [][NextExtract]_vars

(***************************************************************************)
(* SpecSelect: get_download_for on every product entry, for every query    *)
(***************************************************************************)
InitSelect ==
    /\ pc = "call"
    /\ \E raws \in RawLists : downloads = TenableProductInfo(raws)
    /\ query = None
    /\ selRet = None
    /\ ArchIdle /\ DistroIdle /\ ExtractIdle /\ LoaderIdle

\* get_download_for changes nothing of the entry, so one call per behaviour
\* shows all it can do
GetDownloadFor ==
    \E q \in Queries :
        /\ pc = "call"
        /\ query' = q
        /\ selRet' = get_download_for(downloads, q)
        /\ pc' = "done"
        /\ UNCHANGED <<downloads, archVars, distroVars, extractVars, loaderVars>>

NextSelect == GetDownloadFor
SpecSelect == InitSelect /\ [][NextSelect]_vars

(***************************************************************************)
(* Spec: a TenableProductDownloader against a server whose answers are     *)
(* fixed for the run; the caller loads the catalogs and asks for the       *)
(* download of a platform, in any order and any number of times.           *)
(***************************************************************************)
NoCall == [op |-> "none", query |-> None, kind |-> "none", detail |-> None, logged |-> <<>>]

Init ==
    /\ pc = "call"
    /\ server \in [Families -> Responses]
    /\ product_info = <<>>
    /\ ret = NoCall
    /\ ArchIdle /\ DistroIdle /\ ExtractIdle /\ SelectIdle

LoadAllProductInfo ==
    \E st \in {load_all_product_info(server, product_info)} :
        /\ product_info' = st.product_info
        /\ ret' = [op |-> "load_all_product_info", query |-> None,
                   kind |-> IF st.raised = None THEN "return" ELSE val(st.raised).kind,
                   detail |-> IF st.raised = None THEN None ELSE val(st.raised).detail,
                   logged |-> st.logged]
        /\ pc' = "done"
        /\ UNCHANGED <<server, archVars, distroVars, extractVars, selectVars>>

GetNessusAgentDownloadInfo ==
    \E q \in LoaderQueries :
        \E st \in {get_nessus_agent_download_info(server, product_info, q)} :
            /\ product_info' = st.product_info
            /\ ret' = [op |-> "get_nessus_agent_download_info", query |-> Some(q),
                       kind |-> st.result.kind, detail |-> st.result.detail,
                       logged |-> st.logged]
            /\ pc' = "done"
            /\ UNCHANGED <<server, archVars, distroVars, extractVars, selectVars>>

Next == LoadAllProductInfo \/ GetNessusAgentDownloadInfo
Spec == Init /\ [][Next]_vars

(***************************************************************************)
(* C9: is_equivalent_architecture is symmetric: the value returned for     *)
(* (arch1, arch2) is the value the function gives for (arch2, arch1), for  *)
(* canonical names, aliases, any letter case and names outside the table.  *)
(***************************************************************************)
C9_ArchSymmetric ==
    pc = "done" => archRet = is_equivalent_architecture(arch2, arch1)

\* an alias was given first and its canonical name, in another letter case,
\* second: only the mirrored test of the loop can answer True
C9_Witness ==
    /\ pc = "done"
    /\ arch1 = "amd64"
    /\ arch2 = "X86_64"
    /\ archRet = TRUE

(***************************************************************************)
(* C8 (as claimed): for a reported name of the enterprise-Linux group and  *)
(* numerals m, n, is_equivalent_distro(distro, m, "el" + n) is true        *)
(* exactly when m = n.                                                     *)
(***************************************************************************)
C8_ElMajorVersionExact ==
    (/\ pc = "done"
     /\ distro1 \in ElAliases
     /\ major_version \in Numerals
     /\ distro2 \in ElTokens)
        => (distroRet <=> (distro2 = "el" \o major_version))

(***************************************************************************)
(* C10 (as claimed): every alias of the table, in any letter case, is      *)
(* equivalent to a candidate token that starts with the alias's group key  *)
(* (and, for the el group, contains the major version).                    *)
(***************************************************************************)
C10_AliasCaseInsensitive ==
    pc = "done" =>
        \A k \in DOMAIN distro_equivalences :
            \A alias \in distro_equivalences[k].aliases :
                (/\ lower(distro1) = lower(alias)
                 /\ startswith(distro2, distro_equivalences[k].group)
                 /\ (distro_equivalences[k].group = "el"
                        => contains(distro2, major_version)))
                    => distroRet = TRUE

(***************************************************************************)
(* C5 (as claimed): construction never overwrites a metadata field the     *)
(* catalog supplied explicitly: every key of meta_data given with a string *)
(* value holds that value after extraction, whatever the filename.         *)
(***************************************************************************)
C5_ExplicitNeverOverwritten ==
    pc = "done" =>
        \A k \in DOMAIN raw.meta_data :
            raw.meta_data[k] # None => info.meta_data[k] = raw.meta_data[k]

\* the catalog supplies none of os, os_type, arch: each key is missing or null
NoExplicitMeta(md) == \A k \in MetaKeys : k \notin DOMAIN md \/ md[k] = None

(***************************************************************************)
(* C6 (as claimed): with no explicit os, os_type or arch in the catalog    *)
(* and a filename <version>-<osToken><sep><archToken>.<ext>, extraction    *)
(* sets os to osToken, arch to archToken and os_type to windows when       *)
(* osToken starts with "win" in any letter case, to linux otherwise.       *)
(***************************************************************************)
C6_PlatformTokenExtracted ==
    (pc = "done" /\ NoExplicitMeta(raw.meta_data)) =>
        \A pre \in Prefixes, ver \in VersionTexts, o \in OsTokens,
           sep \in Separators, a \in ArchTokens, e \in Extensions :
            raw.name = PlatformName(pre, ver, o, sep, a, e) =>
                /\ info.meta_data["os"] = Str(o)
                /\ info.meta_data["arch"] = Str(a)
                /\ info.meta_data["os_type"] =
                       IF startswith(lower(o), "win") THEN Str("windows")
                       ELSE Str("linux")

(***************************************************************************)
(* C7 (as claimed): a filename <name>-<version>-win-<arch>.<ext> yields an *)
(* os token that starts with "win" and os_type windows.                    *)
(***************************************************************************)
C7_WinHyphenIsWindows ==
    (pc = "done" /\ raw.name \in WinHyphenNames) =>
        /\ info.meta_data["os"] # None
        /\ startswith(lower(val(info.meta_data["os"])), "win")
        /\ info.meta_data["os_type"] = Str("windows")

(***************************************************************************)
(* C7 (amended): a filename <name>-<version>-win-<arch>.<ext> does not fit *)
(* the version-platformToken-extension pattern, because its platform part  *)
(* holds a hyphen: extraction derives nothing from it.  os and arch stay   *)
(* what TenableInfoMetadata made of the catalog's meta_data, and os_type   *)
(* too, unless the name ends in dmg (darwin) or tar.gz (linux); os_type is *)
(* never set to windows by extraction.                                     *)
(***************************************************************************)
C7_WinHyphenUnclassified ==
    (pc = "done" /\ raw.name \in WinHyphenNames) =>
        LET md == TenableInfoMetadata(raw.meta_data)
        IN  /\ info.meta_data["os"] = md["os"]
            /\ info.meta_data["arch"] = md["arch"]
            /\ info.meta_data["os_type"] =
                   IF endswith(raw.name, "dmg") THEN Str("darwin")
                   ELSE IF endswith(raw.name, "tar.gz") THEN Str("linux")
                   ELSE md["os_type"]

\* the catalog gave null for all three keys and the name is a Windows
\* installer with the hyphenated platform part: all three are still None
C7_Witness ==
    /\ pc = "done"
    /\ raw.name = "Nessus-10.6.1-win-x64.msi"
    /\ raw.meta_data = [k \in MetaKeys |-> None]
    /\ info.meta_data = [k \in MetaKeys |-> None]

\* the positions of the artifacts that satisfy the match predicate
Matching == {i \in DOMAIN downloads : is_match(downloads[i], query)}

(***************************************************************************)
(* C1: when some artifact of the entry satisfies is_match for the query,   *)
(* get_download_for returns the one with the smallest catalog index: no    *)
(* earlier artifact matches and no later match is preferred.               *)
(***************************************************************************)
C1_FirstMatchReturned ==
    pc = "done" =>
        LET M == Matching
        IN  M # {} =>
                /\ selRet.kind = "return"
                /\ selRet.index \in M
                /\ \A j \in M : selRet.index <= j
                /\ selRet.download = downloads[selRet.index]

\* the returned artifact is neither the first of the list nor the only match:
\* a different matching artifact comes later
C1_Witness ==
    /\ pc = "done"
    /\ selRet.kind = "return"
    /\ selRet.index > 1
    /\ \E j \in Matching : j > selRet.index /\ downloads[j] # selRet.download

(***************************************************************************)
(* C2: get_download_for raises the no-match ValueError exactly when no     *)
(* artifact satisfies is_match, and the options it reports hold one        *)
(* (os, arch) pair per artifact, in catalog order, unclassified artifacts  *)
(* included.                                                               *)
(***************************************************************************)
C2_NoMatchListsEveryArtifact ==
    pc = "done" =>
        /\ (selRet.kind = "ValueError" <=> Matching = {})
        /\ selRet.kind = "ValueError" =>
               /\ Len(selRet.options) = Len(downloads)
               /\ \A i \in DOMAIN downloads :
                      selRet.options[i] =
                          <<downloads[i].meta_data["os"], downloads[i].meta_data["arch"]>>

\* no match in an entry of several artifacts, one of them unclassified
C2_Witness ==
    /\ pc = "done"
    /\ selRet.kind = "ValueError"
    /\ Len(downloads) >= 2
    /\ \E i \in DOMAIN downloads : downloads[i].meta_data["os"] = None
    /\ \E i \in DOMAIN downloads : downloads[i].meta_data["os"] # None

(***************************************************************************)
(* C3 (as claimed): when the page fetched for nessus-agents has a marked   *)
(* script holding malformed structured data, or no marked script at all,   *)
(* the selection query ends in the no-matching-artifact failure (the       *)
(* ValueError of get_download_for) and in no other error.                  *)
(***************************************************************************)
C3_BadPageEndsInNoMatch ==
    (/\ ret.op = "get_nessus_agent_download_info"
     /\ server["nessus-agents"].status_code = HTTP_OK
     /\ \/ MalformedScript(server["nessus-agents"].text)
        \/ ~HasMarkedScript(server["nessus-agents"].text))
        => ret.kind = "ValueError"

(***************************************************************************)
(* C4 (as claimed): when a page fetch of the catalog load answers a        *)
(* non-success status, the selection query that loaded the catalogs fails  *)
(* with a condition that carries that status code, whichever of the two    *)
(* families failed; it is never a missing-key error.                       *)
(***************************************************************************)
C4_FetchFailureSurfaced ==
    (ret.op = "get_nessus_agent_download_info" /\ ret.logged # <<>>) =>
        /\ ret.kind \notin {"return", "KeyError"}
        /\ "status_code" \in DOMAIN ret.detail
        /\ ret.detail.status_code = ret.logged[1].status_code

\* an artifact the constructor could not classify from its file name: the
\* name reached the pattern (neither a disk image nor a tarball) and the
\* pattern did not match
Unclassified(d) ==
    /\ ~endswith(d.name, "dmg")
    /\ ~endswith(d.name, "tar.gz")
    /\ re_search_os(d.name) = None

\* the catalog supplied no os string for the artifact: the key was missing
\* (the default ""), or its value was null
NoCatalogOs(d) == d.meta_data["os"] \in {None, Str("")}

(***************************************************************************)
(* C11 as stated: an artifact whose file name reaches the pattern and      *)
(* fails to match it never satisfies is_match for any query, whatever      *)
(* metadata the catalog supplied for it, and get_download_for never        *)
(* returns it.                                                             *)
(***************************************************************************)
C11_UnclassifiedNeverMatches ==
    pc = "done" =>
        \A i \in DOMAIN downloads :
            Unclassified(downloads[i]) =>
                /\ ~is_match(downloads[i], query)
                /\ ~(selRet.kind = "return" /\ selRet.index = i)

\* the state part of the amended C11: without an os string from the catalog
\* the unclassified artifact matches no query and is not the one returned,
\* and the no-match error still lists it at its catalog position
C11_NoOsNeverSelected ==
    pc = "done" =>
        \A i \in DOMAIN downloads :
            (NoCatalogOs(downloads[i]) /\ Unclassified(downloads[i])) =>
                /\ ~is_match(downloads[i], query)
                /\ ~(selRet.kind = "return" /\ selRet.index = i)
                /\ selRet.kind = "ValueError" =>
                       /\ i \in DOMAIN selRet.options
                       /\ selRet.options[i] =
                              <<downloads[i].meta_data["os"], downloads[i].meta_data["arch"]>>

(***************************************************************************)
(* C11 amended: an artifact whose file name reaches the pattern and fails  *)
(* to match it, and for which the catalog supplied no os string (key       *)
(* missing, null or empty), never satisfies is_match for any query and is  *)
(* never returned by get_download_for; selection leaves the entry's        *)
(* artifact list as it was, so the artifact remains in it.                 *)
(***************************************************************************)
C11_UnclassifiedWithoutOsNeverMatches ==
    /\ []C11_NoOsNeverSelected
    /\ [][downloads' = downloads]_vars

\* the scan passed over an unclassified artifact without an os string and
\* returned a later artifact of the same entry
C11_Witness ==
    /\ pc = "done"
    /\ selRet.kind = "return"
    /\ \E i \in DOMAIN downloads :
           /\ i < selRet.index
           /\ NoCatalogOs(downloads[i])
           /\ Unclassified(downloads[i])

====
